---- MODULE Spec2Model ----
(***************************************************************************)
(* Model of the PeerManager actor of shell/src/peer_manager.rs: the live   *)
(* peer registry (peers), the candidate pool (potential_peers), the        *)
(* thresholds, the actor's mailbox and the three Receive handlers          *)
(* (CheckPeerCount, NetworkChannelMsg, SystemEvent).                       *)
(***************************************************************************)
EXTENDS Integers, Sequences, FiniteSets, TLC

\* ------------------------------------------------------------------ bounds
NumAddr == 2
NumUri == 2
MaxHigh == 2
MaxMailbox == 1
MaxMsgs == 2
MaxBatch == 3
NumHosts == 1
MaxBootstrap == 2

\* Width of usize in the model; every count in the model is far below 2^UsizeBits
UsizeBits == 8

\* ------------------------------------------------------------- data types
SocketAddr == 1..NumAddr
ActorUri == 1..NumUri
Hostname == 1..NumHosts

\* A PeerRef is the actor reference of a peer; uri() is its identity.
PeerRef(u) == [uri |-> u]

\* Address strings carried by an Advertise message.  String 0 is not an
\* address ("not-an-address"); string s > 0 is a spelling of the address
\* ((s - 1) % NumAddr) + 1, so that the strings s and s + NumAddr are two
\* spellings of the same address.
NumStr == NumAddr + 1
AddrString == 0..NumStr

None == 0

\* str_ip_port.parse().ok(): Some(address) or None
Parse(s) == IF s = 0 THEN None ELSE ((s - 1) % NumAddr) + 1

Min(a, b) == IF a < b THEN a ELSE b

SeqToSet(s) == {s[i] : i \in 1..Len(s)}

Orders_ascending(S) == {f \in [1..Cardinality(S) -> S] : \A i, j \in 1..Cardinality(S) : i < j => f[i] < f[j]}

\* All orders in which the elements of S can be iterated (a HashMap's or
\* HashSet's iteration order, a shuffled Vec).
Orders(S) == {f \in [1..Cardinality(S) -> S] : \A i, j \in 1..Cardinality(S) : f[i] = f[j] => i = j}

\* The orders in which registry.values() can iterate
Values(registry) == {[i \in 1..Cardinality(DOMAIN registry) |-> registry[f[i]]] : f \in Orders(DOMAIN registry)}

\* Sequences over S of length at most n
SeqUpTo(S, n) == UNION {[1..k -> S] : k \in 0..n}

\* ---------------------------------------------------------------- messages
CheckPeerCount == [type |-> "CheckPeerCount"]
PeerCreated(u) == [type |-> "PeerCreated", peer |-> PeerRef(u)]
PeerMessageReceived == [type |-> "PeerMessageReceived"]
ActorTerminated(u) == [type |-> "ActorTerminated", actor |-> u]

\* PeerMessage: an Advertise message with its list of address strings, or
\* any other peer message
Advertise(id) == [kind |-> "Advertise", id |-> id]
OtherPeerMessage == [kind |-> "Bootstrap"]

\* The peer messages holding at most n address strings
PeerMessages(n) == {OtherPeerMessage} \cup {Advertise(id) : id \in SeqUpTo(AddrString, n)}

StringsIn(message) == IF message.kind = "Advertise" THEN Len(message.id) ELSE 0

\* The message lists a PeerMessageReceived event can carry: at most k
\* messages holding at most n address strings in total
RECURSIVE MessageLists(_, _)
MessageLists(k, n) ==
    IF k = 0 THEN {<<>>}
    ELSE {<<>>} \cup UNION {{<<m>> \o rest : rest \in MessageLists(k - 1, n - StringsIn(m))} : m \in PeerMessages(n)}

Payloads == MessageLists(MaxMsgs, MaxBatch)

\* ------------------------------------------------------------------- state
VARIABLES
    threshold,            \* Threshold { low, high }
    bootstrap_addresses,  \* Vec<String>
    peers,                \* HashMap<ActorUri, PeerRef>
    potential_peers,      \* HashSet<SocketAddr>
    mailbox,              \* messages delivered to the actor, not yet handled
    out,                  \* the message handled last and what its handler did
    timer                 \* the schedule set up by pre_start

vars == <<threshold, bootstrap_addresses, peers, potential_peers, mailbox, out, timer>>

\* The panic of a failed assert!: the constructing thread unwinds and no
\* Threshold value exists
Panic == [panic |-> "low must be less than or equal to high"]

\* The threshold slot before Threshold::new has been called
Unconstructed == [unconstructed |-> TRUE]

ThresholdNew_strict(low, high) ==
    IF low < high THEN [low |-> low, high |-> high] ELSE Panic

\* Threshold::new(low, high): assert!(low <= high); Threshold { low, high }
ThresholdNew(low, high) ==
    IF low <= high THEN [low |-> low, high |-> high] ELSE Panic

\* The thresholds a manager can be running with
Thresholds == {ThresholdNew(l, h) : l \in 0..MaxHigh, h \in 0..MaxHigh} \ {Panic}

NoOutput == [msg |-> [type |-> "none"], peers |-> << >>, potential_peers |-> {},
             connects |-> <<>>, stops |-> <<>>, bootstraps |-> <<>>,
             dns |-> 0, resolved |-> {}, told |-> <<>>, faults |-> {}]

\* ctx.schedule(initial_delay, interval, receiver, sender, msg): the message
\* is due after initial_delay and then every interval.  due is the time
\* left until the next firing; since is the time passed since the last
\* firing, or since the start while fired is FALSE.
Schedule(initial_delay, interval) ==
    [due |-> initial_delay, interval |-> interval, since |-> 0, fired |-> FALSE]

PreStartSchedule_swapped == Schedule(10, 3)

\* pre_start: ctx.schedule(Duration::from_secs(3), Duration::from_secs(10),
\* ctx.myself(), None, CheckPeerCount.into())
PreStartSchedule == Schedule(3, 10)

\* PeerManager::actor / PeerManager::new
Init ==
    /\ threshold \in Thresholds
    /\ bootstrap_addresses = [i \in 1..NumHosts |-> i]
    /\ peers = << >>
    /\ potential_peers \in SUBSET SocketAddr
    /\ mailbox = <<>>
    /\ out = NoOutput
    /\ timer = PreStartSchedule

\* ------------------------------------------------------------ DNS resolver
\* The outcome of one getaddrinfo call: an error, or the addresses found
LookupError == [ok |-> FALSE, addrs |-> {}]
Ok(addrs) == [ok |-> TRUE, addrs |-> addrs]
LookupResult == {LookupError} \cup {Ok(addrs) : addrs \in SUBSET SocketAddr}
LookupOracle == [Hostname -> LookupResult]

\* resolve_dns_name_to_peer_address(address): Err(e), or Ok(addresses with
\* the port set to 9732); lookup is what the name service answers now
resolve_dns_name_to_peer_address(address, lookup) == lookup[address]

\* dns_lookup_peers: the union of the endpoints that resolved
RECURSIVE dns_lookup_from(_, _, _)
dns_lookup_from(addresses, lookup, resolved_peers) ==
    IF addresses = <<>> THEN resolved_peers
    ELSE LET r == resolve_dns_name_to_peer_address(Head(addresses), lookup)
         IN dns_lookup_from(Tail(addresses), lookup,
                IF r.ok THEN resolved_peers \cup r.addrs ELSE resolved_peers)

dns_lookup_peers_abort(addresses, lookup) ==
    IF \E i \in DOMAIN addresses : ~resolve_dns_name_to_peer_address(addresses[i], lookup).ok
    THEN {}
    ELSE dns_lookup_from(addresses, lookup, {})

dns_lookup_peers(addresses, lookup) == dns_lookup_from(addresses, lookup, {})

\* ------------------------------------------------------ CheckPeerCount
\* usize subtraction: the difference modulo 2^UsizeBits.  Where a < b a build
\* with overflow checks panics and a build without them wraps around.
usize_sub(a, b) == (a - b) % (2 ^ UsizeBits)

SubtractWithOverflow == "attempt to subtract with overflow"

DrainOutOfRange == "drain end out of range"

\* What goes wrong in evaluating a - b
SubFaults(a, b) == IF a < b THEN {SubtractWithOverflow} ELSE {}

\* What goes wrong in Vec::drain(0..end) on a list of len elements
DrainFaults(end, len) == IF end > len THEN {DrainOutOfRange} ELSE {}

\* Whether the handler stops at the fault: an out-of-range drain always
\* panics, an overflowing subtraction only in a build that checks for it
PanicOutcomes(faults) ==
    IF faults = {} THEN {FALSE}
    ELSE IF DrainOutOfRange \in faults THEN {TRUE} ELSE BOOLEAN

PeerCountTooLow_inclusive(n, t) == n <= t.low

\* line 134: self.peers.len() < self.threshold.low
PeerCountTooLow(n, t) == n < t.low

PoolTooSmall_only_empty(pool, t) == pool = {} /\ t.low > 0

PoolTooSmall_inclusive(pool, t) == Cardinality(pool) <= t.low

\* line 136: self.potential_peers.len() < self.threshold.low
PoolTooSmall(pool, t) == Cardinality(pool) < t.low

PeerCountTooHigh_above_low(n, t) == n > t.low

PeerCountTooHigh_strict(n, t) == n > t.high + 1

\* line 150: self.peers.len() > self.threshold.high
PeerCountTooHigh(n, t) == n > t.high

num_required_peers_one_more(t, n) == usize_sub(t.low, n) + 1

num_required_peers_high(t, n) == usize_sub(t.high, n)

\* line 140
num_required_peers(t, n) == usize_sub(t.low, n)

DrainEnd_none(required, len) == Min(required, 0)

DrainEnd_all(required, len) == len

\* line 145: the end of the drained range
DrainEnd(required, len) == Min(required, len)

NumToStop_one_more(n, t) == usize_sub(n, t.high) + 1

NumToStop_low(n, t) == usize_sub(n, t.low)

\* line 155: how many peers .take() lets through
NumToStop(n, t) == usize_sub(n, t.high)

discover_peers_always_dns(registry, pool, addresses, lookup, values) ==
    LET found == dns_lookup_peers(addresses, lookup)
    IN [potential_peers |-> pool \cup found, dns |-> 1, resolved |-> found, bootstraps |-> <<>>]

discover_peers_no_insert(registry, pool, addresses, lookup, values) ==
    IF DOMAIN registry = {}
    THEN [potential_peers |-> pool, dns |-> 1, resolved |-> dns_lookup_peers(addresses, lookup), bootstraps |-> <<>>]
    ELSE [potential_peers |-> pool, dns |-> 0, resolved |-> {}, bootstraps |-> values]

\* discover_peers(): the pool after it, and what it asked for.  values is
\* the order in which self.peers.values() iterates.
discover_peers(registry, pool, addresses, lookup, values) ==
    IF DOMAIN registry = {}
    THEN LET found == dns_lookup_peers(addresses, lookup)
         IN [potential_peers |-> pool \cup found, dns |-> 1, resolved |-> found, bootstraps |-> <<>>]
    ELSE [potential_peers |-> pool, dns |-> 0, resolved |-> {}, bootstraps |-> values]

NoDiscovery(pool) == [potential_peers |-> pool, dns |-> 0, resolved |-> {}, bootstraps |-> <<>>]

\* The peer-count-too-low branch, lines 135-149
ConnectToPeers(values, lookup) ==
    LET d == IF PoolTooSmall(potential_peers, threshold)
             THEN discover_peers(peers, potential_peers, bootstrap_addresses, lookup, values)
             ELSE NoDiscovery(potential_peers)
        required == num_required_peers(threshold, Cardinality(DOMAIN peers))
        sub == SubFaults(threshold.low, Cardinality(DOMAIN peers))
    IN \E addresses_to_connect \in Orders(d.potential_peers) :
         LET end == DrainEnd(required, Len(addresses_to_connect))
             faults == sub \cup DrainFaults(end, Len(addresses_to_connect))
         IN \E panicked \in PanicOutcomes(faults) :
              LET drained == IF panicked THEN <<>> ELSE SubSeq(addresses_to_connect, 1, end)
              IN /\ potential_peers' = d.potential_peers \ SeqToSet(drained)
                 /\ out' = [msg |-> CheckPeerCount, peers |-> peers, potential_peers |-> potential_peers,
                            connects |-> drained, stops |-> <<>>, bootstraps |-> d.bootstraps,
                            dns |-> d.dns, resolved |-> d.resolved, told |-> <<>>, faults |-> faults]

\* The peer-count-too-high branch, lines 151-156
StopPeers(values) ==
    LET faults == SubFaults(Cardinality(DOMAIN peers), threshold.high)
    IN \E panicked \in PanicOutcomes(faults) :
         /\ potential_peers' = potential_peers
         /\ out' = [msg |-> CheckPeerCount, peers |-> peers, potential_peers |-> potential_peers,
                    connects |-> <<>>,
                    stops |-> IF panicked THEN <<>>
                              ELSE SubSeq(values, 1, Min(NumToStop(Cardinality(DOMAIN peers), threshold), Len(values))),
                    bootstraps |-> <<>>, dns |-> 0, resolved |-> {}, told |-> <<>>, faults |-> faults]

Quiet(msg) ==
    out' = [msg |-> msg, peers |-> peers, potential_peers |-> potential_peers,
            connects |-> <<>>, stops |-> <<>>, bootstraps |-> <<>>,
            dns |-> 0, resolved |-> {}, told |-> <<>>, faults |-> {}]

\* Receive<CheckPeerCount>::receive.  The name service answers (lookup) only
\* where discover_peers asks it; values is the order of self.peers.values().
ReceiveCheckPeerCount ==
    /\ mailbox # <<>>
    /\ Head(mailbox) = CheckPeerCount
    /\ mailbox' = Tail(mailbox)
    /\ \E values \in Values(peers) :
         IF PeerCountTooLow(Cardinality(DOMAIN peers), threshold)
         THEN IF PoolTooSmall(potential_peers, threshold) /\ DOMAIN peers = {}
              THEN \E lookup \in LookupOracle : ConnectToPeers(values, lookup)
              ELSE ConnectToPeers(values, [h \in Hostname |-> LookupError])
         ELSE IF PeerCountTooHigh(Cardinality(DOMAIN peers), threshold)
              THEN StopPeers(values)
              ELSE potential_peers' = potential_peers /\ Quiet(CheckPeerCount)
    /\ UNCHANGED <<timer, threshold, bootstrap_addresses, peers>>

\* ------------------------------------------------------------ SystemEvent
RemovePeer_or_any(registry, u) ==
    IF u \in DOMAIN registry \/ DOMAIN registry = {}
    THEN [k \in DOMAIN registry \ {u} |-> registry[k]]
    ELSE LET v == CHOOSE k \in DOMAIN registry : \A j \in DOMAIN registry : k <= j
         IN [k \in DOMAIN registry \ {v} |-> registry[k]]

\* self.peers.remove(uri)
RemovePeer(registry, u) == [k \in DOMAIN registry \ {u} |-> registry[k]]

TellIfRemoved_always(registry, u) == <<CheckPeerCount>>

TellIfRemoved_never(registry, u) == <<>>

\* if let Some(_) = self.peers.remove(uri) { ctx.myself().tell(CheckPeerCount) }
TellIfRemoved(registry, u) == IF u \in DOMAIN registry THEN <<CheckPeerCount>> ELSE <<>>

\* Receive<SystemEvent>::receive, SystemEvent::ActorTerminated (reached
\* through sys_recv)
ReceiveSystemEvent ==
    /\ mailbox # <<>>
    /\ Head(mailbox).type = "ActorTerminated"
    /\ peers' = RemovePeer(peers, Head(mailbox).actor)
    /\ out' = [msg |-> Head(mailbox), peers |-> peers, potential_peers |-> potential_peers,
               connects |-> <<>>, stops |-> <<>>, bootstraps |-> <<>>,
               dns |-> 0, resolved |-> {}, told |-> TellIfRemoved(peers, Head(mailbox).actor), faults |-> {}]
    /\ mailbox' = Tail(mailbox) \o out'.told
    /\ UNCHANGED <<timer, threshold, bootstrap_addresses, potential_peers>>

\* ------------------------------------------------------ NetworkChannelMsg
RECURSIVE FilterMapParse_until_error(_)
FilterMapParse_until_error(id) ==
    IF id = <<>> \/ Parse(Head(id)) = None THEN <<>>
    ELSE <<Parse(Head(id))>> \o FilterMapParse_until_error(Tail(id))

\* message.id().iter().filter_map(|s| s.parse().ok()).collect::<Vec<_>>()
RECURSIVE FilterMapParse(_)
FilterMapParse(id) ==
    IF id = <<>> THEN <<>>
    ELSE IF Parse(Head(id)) = None THEN FilterMapParse(Tail(id))
         ELSE <<Parse(Head(id))>> \o FilterMapParse(Tail(id))

Extend_replace(pool, sock_addresses) == SeqToSet(sock_addresses)

\* self.potential_peers.extend(sock_addresses)
Extend(pool, sock_addresses) == pool \cup SeqToSet(sock_addresses)

\* messages.iter().for_each(...): the pool after the messages, lines 171-179
RECURSIVE IngestMessages(_, _)
IngestMessages(pool, messages) ==
    IF messages = <<>> THEN pool
    ELSE IngestMessages(
            IF Head(messages).kind = "Advertise"
            THEN Extend(pool, FilterMapParse(Head(messages).id))
            ELSE pool,
            Tail(messages))

RECURSIVE ToldFor_new_only(_)
ToldFor_new_only(messages) ==
    IF messages = <<>> THEN <<>>
    ELSE (IF Head(messages).kind = "Advertise" /\ FilterMapParse(Head(messages).id) # <<>>
          THEN <<CheckPeerCount>> ELSE <<>>) \o ToldFor_new_only(Tail(messages))

\* the CheckPeerCount messages told to myself on the way, line 178
RECURSIVE ToldFor(_)
ToldFor(messages) ==
    IF messages = <<>> THEN <<>>
    ELSE (IF Head(messages).kind = "Advertise" THEN <<CheckPeerCount>> ELSE <<>>) \o ToldFor(Tail(messages))

\* self.peers.insert(uri, peer)
InsertPeer(registry, peer) == [k \in DOMAIN registry \cup {peer.uri} |-> IF k = peer.uri THEN peer ELSE registry[k]]

ReceivePeerCreated_recheck ==
    /\ mailbox # <<>>
    /\ Head(mailbox).type = "PeerCreated"
    /\ peers' = InsertPeer(peers, Head(mailbox).peer)
    /\ mailbox' = Tail(mailbox) \o <<CheckPeerCount>>
    /\ out' = [msg |-> Head(mailbox), peers |-> peers, potential_peers |-> potential_peers,
               connects |-> <<>>, stops |-> <<>>, bootstraps |-> <<>>,
               dns |-> 0, resolved |-> {}, told |-> <<CheckPeerCount>>, faults |-> {}]
    /\ UNCHANGED <<timer, threshold, bootstrap_addresses, potential_peers>>

\* Receive<NetworkChannelMsg>::receive, NetworkChannelMsg::PeerCreated
ReceivePeerCreated ==
    /\ mailbox # <<>>
    /\ Head(mailbox).type = "PeerCreated"
    /\ peers' = InsertPeer(peers, Head(mailbox).peer)
    /\ mailbox' = Tail(mailbox)
    /\ Quiet(Head(mailbox))
    /\ UNCHANGED <<timer, threshold, bootstrap_addresses, potential_peers>>

\* Receive<NetworkChannelMsg>::receive, NetworkChannelMsg::PeerMessageReceived;
\* messages is received.message.messages()
ReceivePeerMessageReceived(messages) ==
    /\ mailbox # <<>>
    /\ Head(mailbox) = PeerMessageReceived
    /\ potential_peers' = IngestMessages(potential_peers, messages)
    /\ out' = [msg |-> [type |-> "PeerMessageReceived", messages |-> messages],
               peers |-> peers, potential_peers |-> potential_peers,
               connects |-> <<>>, stops |-> <<>>, bootstraps |-> <<>>,
               dns |-> 0, resolved |-> {}, told |-> ToldFor(messages), faults |-> {}]
    /\ mailbox' = Tail(mailbox) \o out'.told
    /\ UNCHANGED <<timer, threshold, bootstrap_addresses, peers>>

\* ------------------------------------------------------------ environment
\* A message reaches the mailbox: the timer scheduled in pre_start, the
\* network channel or the system event channel
Deliver(msg) ==
    /\ Len(mailbox) < MaxMailbox
    /\ mailbox' = Append(mailbox, msg)
    /\ UNCHANGED <<timer, threshold, bootstrap_addresses, peers, potential_peers, out>>

\* ctx.schedule(3 s, 10 s, myself, CheckPeerCount)
TimerTick == Deliver(CheckPeerCount)

NetworkEvent == \E u \in ActorUri : Deliver(PeerCreated(u))

SystemMessage == \E u \in ActorUri : Deliver(ActorTerminated(u))

\* The manager under timer ticks and peer lifecycle events.  What gossip
\* does to the pool is covered by the pool the manager starts with.
Next ==
    \/ TimerTick
    \/ NetworkEvent
    \/ SystemMessage
    \/ ReceiveCheckPeerCount
    \/ ReceiveSystemEvent
    \/ ReceivePeerCreated

Spec == Init /\ [][Next]_vars

\* The actor system runs the handler of the message at the head of a
\* mailbox that is not empty; nothing obliges the timer or the channels to
\* deliver anything.
SpecFair ==
    /\ Spec
    /\ WF_vars(ReceiveCheckPeerCount)
    /\ WF_vars(ReceiveSystemEvent)
    /\ WF_vars(ReceivePeerCreated)

\* --------------------------------------------------------------- shedding
\* The message handled last is an admission trigger
HandledCheck == out.msg = CheckPeerCount

\* A manager with any registry, that receives no further PeerCreated; the
\* peer actor stopped by ctx.system.stop terminates and the system event
\* channel publishes its ActorTerminated
StopDelivered ==
    /\ HandledCheck
    /\ \E i \in DOMAIN out.stops : Deliver(ActorTerminated(out.stops[i].uri))

InitShed ==
    /\ threshold \in Thresholds
    /\ bootstrap_addresses = [i \in 1..NumHosts |-> i]
    /\ peers \in {[u \in S |-> PeerRef(u)] : S \in SUBSET ActorUri}
    /\ potential_peers = {}
    /\ mailbox = <<>>
    /\ out = NoOutput
    /\ timer = PreStartSchedule

NextShed ==
    \/ TimerTick
    \/ StopDelivered
    \/ ReceiveCheckPeerCount
    \/ ReceiveSystemEvent

\* The timer keeps ticking every 10 s and every stopped peer terminates
SpecShed ==
    /\ InitShed
    /\ [][NextShed]_vars
    /\ WF_vars(ReceiveCheckPeerCount)
    /\ WF_vars(ReceiveSystemEvent)
    /\ SF_vars(TimerTick)
    /\ SF_vars(StopDelivered)

\* ------------------------------------------------------------------ timer
\* One time unit passes; time does not pass a firing that is due
Advance ==
    /\ timer.due > 0
    /\ timer' = [timer EXCEPT !.due = @ - 1, !.since = @ + 1]
    /\ UNCHANGED <<threshold, bootstrap_addresses, peers, potential_peers, mailbox, out>>

\* The scheduled message is due: it is sent to the manager and the schedule
\* is set for the next interval
ScheduledTick ==
    /\ timer.due = 0
    /\ Len(mailbox) < MaxMailbox
    /\ mailbox' = Append(mailbox, CheckPeerCount)
    /\ timer' = [timer EXCEPT !.due = timer.interval, !.since = 0, !.fired = TRUE]
    /\ UNCHANGED <<threshold, bootstrap_addresses, peers, potential_peers, out>>

NextTimer ==
    \/ Advance
    \/ ScheduledTick
    \/ ReceiveCheckPeerCount

\* A manager with any registry whose only messages are the scheduled
\* triggers; time passes, due messages are sent, the mailbox is served
SpecTimer ==
    /\ InitShed
    /\ [][NextTimer]_vars
    /\ WF_vars(Advance)
    /\ WF_vars(ScheduledTick)
    /\ WF_vars(ReceiveCheckPeerCount)

\* ------------------------------------------------------------ starvation
\* A manager with any registry and any pool that nothing reaches but the
\* timer: no peer connects or terminates and no peer message arrives
InitStarve ==
    /\ threshold \in Thresholds
    /\ bootstrap_addresses = [i \in 1..NumHosts |-> i]
    /\ peers \in {[u \in S |-> PeerRef(u)] : S \in SUBSET ActorUri}
    /\ potential_peers \in SUBSET SocketAddr
    /\ mailbox = <<>>
    /\ out = NoOutput
    /\ timer = PreStartSchedule

NextStarve ==
    \/ TimerTick
    \/ ReceiveCheckPeerCount

\* The timer keeps ticking and the mailbox is served
SpecStarve ==
    /\ InitStarve
    /\ [][NextStarve]_vars
    /\ SF_vars(TimerTick)
    /\ WF_vars(ReceiveCheckPeerCount)

\* ---------------------------------------------------------- construction
\* The caller builds the Threshold and hands it to PeerManager::actor; a
\* manager exists only once Threshold::new has returned a value.
Running == threshold \notin {Unconstructed, Panic}

Construct ==
    /\ threshold = Unconstructed
    /\ \E low \in 0..MaxHigh, high \in 0..MaxHigh :
         /\ threshold' = ThresholdNew(low, high)
         /\ out' = [NoOutput EXCEPT !.msg = [type |-> "Threshold::new", low |-> low, high |-> high]]
    /\ UNCHANGED <<timer, bootstrap_addresses, peers, potential_peers, mailbox>>

InitStart ==
    /\ threshold = Unconstructed
    /\ bootstrap_addresses = [i \in 1..NumHosts |-> i]
    /\ peers = << >>
    /\ potential_peers \in SUBSET SocketAddr
    /\ mailbox = <<>>
    /\ out = NoOutput
    /\ timer = PreStartSchedule

NextStart ==
    \/ Construct
    \/ Running /\ Next

SpecStart == InitStart /\ [][NextStart]_vars

\* ------------------------------------------------------------- scenario
\* A manager started with low = 1, high = 5, no initial peers and one
\* bootstrap host
ScenarioThreshold == ThresholdNew(1, 5)

InitScenario ==
    /\ threshold = ScenarioThreshold
    /\ bootstrap_addresses = [i \in 1..NumHosts |-> i]
    /\ peers = << >>
    /\ potential_peers = {}
    /\ mailbox = <<>>
    /\ out = NoOutput
    /\ timer = PreStartSchedule

SpecScenario == InitScenario /\ [][Next]_vars

\* ------------------------------------------------------------- resolver
\* dns_lookup_peers is a free function: it is applied to any list of at
\* most MaxBootstrap bootstrap hosts, under any outcome of the lookups
ResolverHosts == 1..MaxBootstrap

ResolverOracle == [ResolverHosts -> LookupResult]

InitResolver ==
    /\ threshold = Unconstructed
    /\ bootstrap_addresses \in SeqUpTo(ResolverHosts, MaxBootstrap)
    /\ peers = << >>
    /\ potential_peers = {}
    /\ mailbox = <<>>
    /\ out = NoOutput
    /\ timer = PreStartSchedule

DnsLookupPeers ==
    /\ out = NoOutput
    /\ \E lookup \in ResolverOracle :
         out' = [NoOutput EXCEPT !.msg = [type |-> "dns_lookup_peers", lookup |-> lookup],
                                 !.dns = 1,
                                 !.resolved = dns_lookup_peers(bootstrap_addresses, lookup)]
    /\ UNCHANGED <<timer, threshold, bootstrap_addresses, peers, potential_peers, mailbox>>

SpecResolver == InitResolver /\ [][DnsLookupPeers]_vars

\* One peer message delivered to a manager with any pool and an empty or a
\* non-empty registry, alone in the mailbox or ahead of a timer tick
GossipThreshold == ThresholdNew(1, 2)

InitGossip ==
    /\ threshold = GossipThreshold
    /\ bootstrap_addresses = [i \in 1..NumHosts |-> i]
    /\ peers \in {<< >>, [u \in {1} |-> PeerRef(u)]}
    /\ potential_peers \in SUBSET SocketAddr
    /\ mailbox \in {<<PeerMessageReceived>>, <<PeerMessageReceived, CheckPeerCount>>}
    /\ out = NoOutput
    /\ timer = PreStartSchedule

NextGossip ==
    /\ mailbox # <<>>
    /\ Head(mailbox) = PeerMessageReceived
    /\ \E messages \in Payloads : ReceivePeerMessageReceived(messages)

SpecGossip == InitGossip /\ [][NextGossip]_vars

\* ---------------------------------------------------------- other events
\* What else reaches the actor: a system message that is not an Event, a
\* system event that is not ActorTerminated, a network channel message that
\* is neither PeerCreated nor PeerMessageReceived
OtherSystemMsg == [type |-> "SystemMsg::Command"]
OtherSystemEvent(u) == [type |-> "ActorCreated", actor |-> u]
OtherNetworkChannelMsg == [type |-> "PeerBootstrapped"]

OtherMessages == {OtherSystemMsg, OtherNetworkChannelMsg} \cup {OtherSystemEvent(u) : u \in ActorUri}

\* sys_recv with a message that is not SystemMsg::Event
SysRecvOther ==
    /\ mailbox # <<>>
    /\ Head(mailbox) = OtherSystemMsg
    /\ mailbox' = Tail(mailbox)
    /\ Quiet(Head(mailbox))
    /\ UNCHANGED <<timer, threshold, bootstrap_addresses, peers, potential_peers>>

ReceiveOtherSystemEvent_removes ==
    /\ mailbox # <<>>
    /\ Head(mailbox).type = "ActorCreated"
    /\ peers' = RemovePeer(peers, Head(mailbox).actor)
    /\ out' = [msg |-> Head(mailbox), peers |-> peers, potential_peers |-> potential_peers,
               connects |-> <<>>, stops |-> <<>>, bootstraps |-> <<>>,
               dns |-> 0, resolved |-> {}, told |-> TellIfRemoved(peers, Head(mailbox).actor), faults |-> {}]
    /\ mailbox' = Tail(mailbox) \o out'.told
    /\ UNCHANGED <<timer, threshold, bootstrap_addresses, potential_peers>>

\* Receive<SystemEvent>::receive with an event that is not ActorTerminated
ReceiveOtherSystemEvent ==
    /\ mailbox # <<>>
    /\ Head(mailbox).type = "ActorCreated"
    /\ mailbox' = Tail(mailbox)
    /\ Quiet(Head(mailbox))
    /\ UNCHANGED <<timer, threshold, bootstrap_addresses, peers, potential_peers>>

\* Receive<NetworkChannelMsg>::receive, the arm _ => ()
ReceiveOtherNetworkChannelMsg ==
    /\ mailbox # <<>>
    /\ Head(mailbox) = OtherNetworkChannelMsg
    /\ mailbox' = Tail(mailbox)
    /\ Quiet(Head(mailbox))
    /\ UNCHANGED <<timer, threshold, bootstrap_addresses, peers, potential_peers>>

OtherEvent == \E msg \in OtherMessages \cup {PeerMessageReceived} : Deliver(msg)

\* The peer messages that carry no address string: every message other
\* than Advertise, and the Advertise of an empty list
BarePayloads == MessageLists(MaxMsgs, 0)

ReceiveBarePeerMessage ==
    /\ mailbox # <<>>
    /\ Head(mailbox) = PeerMessageReceived
    /\ \E messages \in BarePayloads : ReceivePeerMessageReceived(messages)

\* A manager with an empty or a non-empty registry and any pool, reached
\* by peer messages and by the events it has no use for
InitOther ==
    /\ threshold = GossipThreshold
    /\ bootstrap_addresses = [i \in 1..NumHosts |-> i]
    /\ peers \in {<< >>, [u \in {1} |-> PeerRef(u)]}
    /\ potential_peers \in SUBSET SocketAddr
    /\ mailbox = <<>>
    /\ out = NoOutput
    /\ timer = PreStartSchedule

NextOther ==
    \/ OtherEvent
    \/ SysRecvOther
    \/ ReceiveOtherSystemEvent
    \/ ReceiveOtherNetworkChannelMsg
    \/ ReceiveBarePeerMessage

SpecOther == InitOther /\ [][NextOther]_vars

\* ------------------------------------------------------------- properties
\* out describes the handler step taken last; no other step changes the
\* registry or the pool, so peers and potential_peers are the state that
\* step left behind and out.peers, out.potential_peers the state it found.

Distinct(s) == \A i, j \in 1..Len(s) : s[i] = s[j] => i = j

RegistryBefore == DOMAIN out.peers

\* the pool after the discovery merge of the trigger handled last
PoolAfterMerge == out.potential_peers \cup out.resolved

\* the addresses the strings of one Advertise message spell
ValidAddrs(id) == {Parse(id[i]) : i \in 1..Len(id)} \ {None}

AdvertiseIndices(messages) == {i \in 1..Len(messages) : messages[i].kind = "Advertise"}

AdvertisedAddrs(messages) == UNION {ValidAddrs(messages[i].id) : i \in AdvertiseIndices(messages)}

\* C1: a trigger handled with |registry| < low issues exactly
\* min(low - |registry|, |pool after the discovery merge|) connect requests,
\* to pairwise distinct addresses of that pool, removes exactly those
\* addresses from the pool, and issues no stop request.
C1_UnderTargetDialing ==
    (HandledCheck /\ Cardinality(RegistryBefore) < threshold.low) =>
        /\ Len(out.connects) = Min(threshold.low - Cardinality(RegistryBefore), Cardinality(PoolAfterMerge))
        /\ Distinct(out.connects)
        /\ SeqToSet(out.connects) \subseteq PoolAfterMerge
        /\ potential_peers = PoolAfterMerge \ SeqToSet(out.connects)
        /\ out.stops = <<>>

C1_Witness ==
    /\ HandledCheck
    /\ Cardinality(RegistryBefore) < threshold.low
    /\ out.resolved \ out.potential_peers # {}
    /\ Len(out.connects) = 1
    /\ potential_peers # {}

\* C2: a trigger handled with |registry| > high issues exactly
\* |registry| - high stop requests, each to a distinct registered peer, no
\* connect request, and leaves registry and pool as they were; an identity
\* leaves the registry only in the handling of its peer-terminated event.
C2_OverTargetEviction ==
    /\ (HandledCheck /\ Cardinality(RegistryBefore) > threshold.high) =>
        /\ Len(out.stops) = Cardinality(RegistryBefore) - threshold.high
        /\ Distinct(out.stops)
        /\ SeqToSet(out.stops) \subseteq {out.peers[u] : u \in RegistryBefore}
        /\ out.connects = <<>>
        /\ peers = out.peers
        /\ potential_peers = out.potential_peers
    /\ \A u \in RegistryBefore \ DOMAIN peers : out.msg = ActorTerminated(u)

C2_Witness ==
    /\ HandledCheck
    /\ Cardinality(RegistryBefore) > threshold.high
    /\ Len(out.stops) >= 2

\* C3: a trigger handled with low <= |registry| <= high issues no connect
\* and no stop request, resolves no name, broadcasts nothing and leaves
\* registry and pool as they were.
C3_NoOpBand ==
    (/\ HandledCheck
     /\ threshold.low <= Cardinality(RegistryBefore)
     /\ Cardinality(RegistryBefore) <= threshold.high) =>
        /\ out.connects = <<>>
        /\ out.stops = <<>>
        /\ out.dns = 0
        /\ out.bootstraps = <<>>
        /\ peers = out.peers
        /\ potential_peers = out.potential_peers

C3_Witness ==
    /\ HandledCheck
    /\ threshold.low <= Cardinality(RegistryBefore)
    /\ Cardinality(RegistryBefore) <= threshold.high
    /\ threshold.low >= 1
    /\ Cardinality(potential_peers) < threshold.low

\* C4: the resolver runs only in the handling of a trigger that found the
\* registry empty.
C4_BootstrapOnlyWhenEmpty ==
    out.dns > 0 => (HandledCheck /\ RegistryBefore = {})

C4_Witness ==
    /\ out.dns = 1
    /\ HandledCheck
    /\ RegistryBefore = {}
    /\ out.resolved # {}

C6_Original ==
    (HandledCheck /\ RegistryBefore = {} /\ threshold.low > 0) =>
        /\ out.dns = 1
        /\ SeqToSet(out.connects) \cup potential_peers = out.potential_peers \cup out.resolved

\* C6 amended: a trigger handled with an empty registry and low > 0 runs the
\* resolver when the pool holds fewer than low candidates, and then selects
\* from the pool merged with everything resolved; when the pool holds low or
\* more candidates the resolver is not run.
C6_BootstrapMerge ==
    (HandledCheck /\ RegistryBefore = {} /\ threshold.low > 0) =>
        IF Cardinality(out.potential_peers) < threshold.low
        THEN /\ out.dns = 1
             /\ SeqToSet(out.connects) \cup potential_peers = out.potential_peers \cup out.resolved
             /\ Len(out.connects) = Min(threshold.low, Cardinality(out.potential_peers \cup out.resolved))
        ELSE /\ out.dns = 0
             /\ out.resolved = {}
             /\ SeqToSet(out.connects) \cup potential_peers = out.potential_peers

C6_Witness ==
    /\ HandledCheck
    /\ RegistryBefore = {}
    /\ out.dns = 1
    /\ out.potential_peers # {}
    /\ out.resolved \ out.potential_peers # {}
    /\ SeqToSet(out.connects) \cap out.resolved # {}

\* C7: a peer-terminated event for an identity outside the registry changes
\* nothing and tells no re-check; for an identity in the registry it removes
\* that entry alone, leaves the pool alone and tells exactly one re-check.
C7_TerminationRecheck ==
    out.msg.type = "ActorTerminated" =>
        /\ potential_peers = out.potential_peers
        /\ out.connects = <<>> /\ out.stops = <<>> /\ out.bootstraps = <<>> /\ out.dns = 0
        /\ IF out.msg.actor \in RegistryBefore
           THEN /\ DOMAIN peers = RegistryBefore \ {out.msg.actor}
                /\ \A u \in DOMAIN peers : peers[u] = out.peers[u]
                /\ out.told = <<CheckPeerCount>>
           ELSE /\ peers = out.peers
                /\ out.told = <<>>

C7_Witness ==
    /\ out.msg.type = "ActorTerminated"
    /\ out.msg.actor \in RegistryBefore
    /\ DOMAIN peers # {}
    /\ out.told = <<CheckPeerCount>>

\* C8: handling a peer message adds to the pool exactly the addresses that
\* the strings of its Advertise lists spell; strings that are no address are
\* skipped wherever they stand, and the registry is left alone.
C8_MalformedGossipTolerance ==
    out.msg.type = "PeerMessageReceived" =>
        /\ potential_peers = out.potential_peers \cup AdvertisedAddrs(out.msg.messages)
        /\ Cardinality(potential_peers \ out.potential_peers)
             = Cardinality(AdvertisedAddrs(out.msg.messages) \ out.potential_peers)
        /\ peers = out.peers

C8_Witness ==
    /\ out.msg.type = "PeerMessageReceived"
    /\ out.msg.messages = <<Advertise(<<1, 0, 2>>)>>
    /\ out.potential_peers = {}
    /\ potential_peers = {1, 2}
    /\ DOMAIN peers # {}
    /\ peers = out.peers

\* C9: two Advertise lists handled one after the other leave the pool equal
\* to the pool before united with the addresses either list spells, each
\* once, and the same pool as when the two lists come in the other order.
C9_GossipDedup ==
    (/\ out.msg.type = "PeerMessageReceived"
     /\ Len(out.msg.messages) = 2
     /\ AdvertiseIndices(out.msg.messages) = {1, 2}) =>
        LET first == out.msg.messages[1]
            second == out.msg.messages[2]
            fresh == (ValidAddrs(first.id) \cup ValidAddrs(second.id)) \ out.potential_peers
        IN /\ potential_peers = out.potential_peers \cup ValidAddrs(first.id) \cup ValidAddrs(second.id)
           /\ Cardinality(potential_peers) = Cardinality(out.potential_peers) + Cardinality(fresh)
           /\ potential_peers = IngestMessages(out.potential_peers, <<second, first>>)

C9_Witness ==
    /\ out.msg.type = "PeerMessageReceived"
    /\ out.msg.messages = <<Advertise(<<1, 2>>), Advertise(<<2>>)>>
    /\ out.potential_peers = {}
    /\ potential_peers = {1, 2}

NumAdvertise(messages) == Cardinality(AdvertiseIndices(messages))

\* C10: handling a peer message tells one re-check per Advertise message it
\* carries, at the end of the mailbox, also when the list added nothing to
\* the pool and when the registry is inside the band.
C10_GossipRecheck ==
    out.msg.type = "PeerMessageReceived" =>
        /\ out.told = [i \in 1..NumAdvertise(out.msg.messages) |-> CheckPeerCount]
        /\ Len(mailbox) >= Len(out.told)
        /\ SubSeq(mailbox, Len(mailbox) - Len(out.told) + 1, Len(mailbox)) = out.told

C10_Witness ==
    /\ out.msg.type = "PeerMessageReceived"
    /\ out.msg.messages = <<Advertise(<<0>>)>>
    /\ potential_peers = out.potential_peers
    /\ threshold.low <= Cardinality(DOMAIN peers)
    /\ Cardinality(DOMAIN peers) <= threshold.high
    /\ out.told = <<CheckPeerCount>>
    /\ mailbox = <<CheckPeerCount, CheckPeerCount>>

\* C11: Threshold::new(low, high) with low > high panics and nothing of a
\* manager ever runs; with low <= high (low = high and low = 0 included) it
\* returns Threshold { low, high }; every running manager has low <= high.
C11_ThresholdValidation ==
    /\ (out.msg.type = "Threshold::new" /\ out.msg.low > out.msg.high) => threshold = Panic
    /\ threshold = Panic =>
          /\ out.msg.type = "Threshold::new"
          /\ mailbox = <<>>
          /\ peers = << >>
    /\ (out.msg.type = "Threshold::new" /\ out.msg.low <= out.msg.high) =>
          threshold = [low |-> out.msg.low, high |-> out.msg.high]
    /\ Running => threshold.low <= threshold.high

C11_Witness ==
    /\ out.msg.type = "Threshold::new"
    /\ out.msg.low > out.msg.high
    /\ threshold = Panic

\* The step is the handling of an admission trigger
TriggerStep ==
    /\ mailbox # <<>>
    /\ Head(mailbox) = CheckPeerCount
    /\ mailbox' = Tail(mailbox)

\* No peer-connected event is waiting to be handled
NoPeerCreatedQueued == \A i \in DOMAIN mailbox : mailbox[i].type # "PeerCreated"

\* Between two triggers handled back to back no dial has resolved: the
\* message handled last is the earlier trigger and no peer-connected event
\* is queued
DialsUnresolved == HandledCheck /\ NoPeerCreatedQueued

\* C12: after a connect request for an address, no second connect request
\* for the same address is issued before the first dial has resolved into a
\* peer-connected event.
C12_NoDuplicateDial ==
    [][(DialsUnresolved /\ TriggerStep) =>
           SeqToSet(out.connects) \cap SeqToSet(out'.connects) = {}]_vars

\* C13: the candidate pool holds no address for which a connect request has
\* been issued and whose dial has not resolved: merges add only addresses
\* that are still unknown.
C13_PoolExcludesDialed ==
    [][(DialsUnresolved /\ TriggerStep) =>
           potential_peers' \cap SeqToSet(out.connects) = {}]_vars

\* The two addresses the bootstrap host resolves to in the scenario
ScenarioAddrs == {1, 2}

\* C14: with low = 1, high = 5, a trigger that finds the registry and the
\* pool empty and resolves the bootstrap list to {A, B} connects to exactly
\* one of A, B and leaves exactly the other in the pool; a trigger that
\* finds one registered peer issues no connect, no stop, no DNS resolution
\* and no broadcast.
C14_EndToEnd ==
    /\ (HandledCheck /\ RegistryBefore = {} /\ out.potential_peers = {}
            /\ out.resolved = ScenarioAddrs) =>
          /\ out.dns = 1
          /\ out.stops = <<>>
          /\ \E a \in ScenarioAddrs :
               /\ out.connects = <<a>>
               /\ potential_peers = ScenarioAddrs \ {a}
    /\ (HandledCheck /\ Cardinality(RegistryBefore) = 1) =>
          /\ out.connects = <<>>
          /\ out.stops = <<>>
          /\ out.dns = 0
          /\ out.bootstraps = <<>>
          /\ potential_peers = out.potential_peers

\* The tick after the peer-connected event: one registered peer, and in the
\* pool the one address the first trigger resolved and did not dial
C14_Witness ==
    /\ threshold = ScenarioThreshold
    /\ HandledCheck
    /\ Cardinality(RegistryBefore) = 1
    /\ Cardinality(potential_peers) = 1
    /\ potential_peers \subseteq ScenarioAddrs
    /\ out.connects = <<>>

\* The positions of the bootstrap list whose lookup succeeded
ResolvedEndpoints(lookup) ==
    {i \in DOMAIN bootstrap_addresses : lookup[bootstrap_addresses[i]].ok}

\* C15: dns_lookup_peers returns the set union of the addresses of the
\* endpoints that resolved; an endpoint that failed contributes nothing and
\* takes nothing away from the others, wherever it stands in the list; an
\* address resolved by several endpoints is in the result once.
C15_ResolverUnion ==
    out.msg.type = "dns_lookup_peers" =>
        /\ out.resolved = UNION {out.msg.lookup[bootstrap_addresses[i]].addrs :
                                    i \in ResolvedEndpoints(out.msg.lookup)}
        /\ \A i \in ResolvedEndpoints(out.msg.lookup) :
              out.msg.lookup[bootstrap_addresses[i]].addrs \subseteq out.resolved

\* A failing endpoint stands before one that resolved to some address
C15_Witness ==
    /\ out.msg.type = "dns_lookup_peers"
    /\ \E i, j \in DOMAIN bootstrap_addresses :
         /\ i < j
         /\ ~out.msg.lookup[bootstrap_addresses[i]].ok
         /\ out.msg.lookup[bootstrap_addresses[j]].ok
         /\ out.msg.lookup[bootstrap_addresses[j]].addrs # {}
         /\ out.msg.lookup[bootstrap_addresses[j]].addrs \subseteq out.resolved

\* The trigger handled last invoked the resolver and every endpoint failed
\* or resolved to nothing
FailedDns == HandledCheck /\ out.dns = 1 /\ out.resolved = {}

Handlers == ReceiveCheckPeerCount \/ ReceiveSystemEvent \/ ReceivePeerCreated

\* After the failed resolution the manager handles whatever is queued
StaysAlive == (FailedDns /\ mailbox # <<>>) => ENABLED Handlers

\* A trigger that finds the registry empty and the pool short of low
\* invokes the resolver
ResolverRetried ==
    (TriggerStep /\ DOMAIN peers = {} /\ Cardinality(potential_peers) < threshold.low) =>
        out'.dns = 1

\* C16 as stated: a trigger whose resolution yields nothing leaves the pool
\* unchanged and issues no connect request.
C16_Original ==
    /\ [](FailedDns => (potential_peers = out.potential_peers /\ out.connects = <<>>))
    /\ []StaysAlive
    /\ [][ResolverRetried]_vars

\* C16: a trigger whose resolution yields nothing adds nothing to the pool
\* and dials only candidates the pool already held, min(low, |pool|) of
\* them and so none when the pool was empty; the manager goes on handling
\* its messages, and every later trigger that finds the registry empty and
\* the pool short of low invokes the resolver again.
C16_DnsFailureRetried ==
    /\ [](FailedDns =>
            /\ SeqToSet(out.connects) \subseteq out.potential_peers
            /\ Len(out.connects) = Min(threshold.low, Cardinality(out.potential_peers))
            /\ potential_peers = out.potential_peers \ SeqToSet(out.connects)
            /\ (out.potential_peers = {} => (out.connects = <<>> /\ potential_peers = {})))
    /\ []StaysAlive
    /\ [][ResolverRetried]_vars

\* A resolution that yields nothing while the pool holds a candidate
C16_Witness ==
    /\ FailedDns
    /\ out.potential_peers # {}
    /\ Len(out.connects) = 1
    /\ potential_peers = {}

\* C17: handling a peer-connected event puts (uri, peer) into the registry,
\* leaves every other entry and the pool as they were, tells no re-check
\* and asks for no connect, stop, lookup or broadcast, also when the
\* registry thereby grows above high.
C17_PeerCreatedOnlyInserts ==
    out.msg.type = "PeerCreated" =>
        /\ DOMAIN peers = RegistryBefore \cup {out.msg.peer.uri}
        /\ peers[out.msg.peer.uri] = out.msg.peer
        /\ \A k \in RegistryBefore \ {out.msg.peer.uri} : peers[k] = out.peers[k]
        /\ potential_peers = out.potential_peers
        /\ out.told = <<>>
        /\ out.connects = <<>>
        /\ out.stops = <<>>
        /\ out.bootstraps = <<>>
        /\ out.dns = 0

\* The insertion that takes the registry from high to high + 1 peers
C17_Witness ==
    /\ out.msg.type = "PeerCreated"
    /\ Cardinality(RegistryBefore) = threshold.high
    /\ Cardinality(DOMAIN peers) = threshold.high + 1
    /\ potential_peers # {}

\* An effective peer-terminated event has just been handled, it left fewer
\* than low peers and a pool that is not empty, and nothing but triggers is
\* queued
RecoveryPending ==
    /\ out.msg.type = "ActorTerminated"
    /\ out.msg.actor \in RegistryBefore
    /\ Cardinality(DOMAIN peers) < threshold.low
    /\ potential_peers # {}
    /\ \A i \in DOMAIN mailbox : mailbox[i] = CheckPeerCount

RecoveryDialed == HandledCheck /\ Len(out.connects) >= 1

C20_OverCapacityShed ==
    (Cardinality(DOMAIN peers) > threshold.high) ~> (Cardinality(DOMAIN peers) <= threshold.high)

\* The termination of a stopped peer has brought the registry down to high
C20_Witness ==
    /\ out.msg.type = "ActorTerminated"
    /\ Cardinality(RegistryBefore) > threshold.high
    /\ Cardinality(DOMAIN peers) = threshold.high
    /\ threshold.high > 0

\* The message handled last is one the manager has no use for
HandledOther ==
    \/ out.msg \in OtherMessages
    \/ /\ out.msg.type = "PeerMessageReceived"
       /\ AdvertiseIndices(out.msg.messages) = {}

\* C21: an event that is not peer-connected, peer-terminated, an
\* advertisement or the admission trigger leaves the registry and the pool
\* as they were, issues no request and tells no re-check; so does a peer
\* message without an advertisement.
C21_OtherEventsIgnored ==
    HandledOther =>
        /\ peers = out.peers
        /\ potential_peers = out.potential_peers
        /\ out.told = <<>>
        /\ out.connects = <<>>
        /\ out.stops = <<>>
        /\ out.bootstraps = <<>>
        /\ out.dns = 0

\* A system event about a registered peer that is not its termination
C21_Witness ==
    /\ out.msg.type = "ActorCreated"
    /\ out.msg.actor \in DOMAIN peers
    /\ potential_peers # {}

\* The step handles a message: a delivery makes the mailbox longer
HandlerStep == mailbox # <<>> /\ Len(mailbox') <= Len(mailbox)

\* The step handles the very message that was handled last
RepeatedDelivery == HandlerStep /\ Head(mailbox) = out.msg

\* C22: inserting the same peer twice gives the registry that inserting it
\* once gives, and removing the same identity twice gives the registry that
\* removing it once gives, the second removal telling no re-check; a
\* peer-connected or peer-terminated event handled twice in a row leaves the
\* registry of the first handling.
C22_LifecycleIdempotent ==
    /\ [](\A u \in ActorUri :
            /\ InsertPeer(InsertPeer(peers, PeerRef(u)), PeerRef(u)) = InsertPeer(peers, PeerRef(u))
            /\ RemovePeer(RemovePeer(peers, u), u) = RemovePeer(peers, u)
            /\ TellIfRemoved(RemovePeer(peers, u), u) = <<>>)
    /\ [][(RepeatedDelivery /\ out.msg.type \in {"PeerCreated", "ActorTerminated"}) =>
             /\ peers' = peers
             /\ out'.told = <<>>]_vars

\* A peer-connected event handled for an identity that is registered
C22_Witness ==
    /\ out.msg.type = "PeerCreated"
    /\ out.msg.peer.uri \in RegistryBefore
    /\ peers = out.peers
    /\ Cardinality(DOMAIN peers) >= 2

\* C23: the scheduled trigger fires first when 3 time units have passed
\* since start-up and then whenever 10 have passed since its last firing;
\* before the first firing no trigger has reached the manager; no handler
\* changes the schedule; the trigger fires again and again.
C23_TimerSchedule ==
    /\ [][ScheduledTick => (timer.since = IF timer.fired THEN 10 ELSE 3)]_vars
    /\ [](~timer.fired => (mailbox = <<>> /\ out = NoOutput /\ timer.since <= 3))
    /\ [][TriggerStep => timer' = timer]_vars
    /\ []<><<ScheduledTick>>_vars

\* The second firing is due, the first trigger having been handled
C23_Witness ==
    /\ timer.fired
    /\ timer.since = 10
    /\ timer.due = 0
    /\ HandledCheck

\* The subsets of S with k elements
SubsetsOfSize(S, k) == {T \in SUBSET S : Cardinality(T) = k}

\* The shuffles of the pool whose drained prefix is the set T
ShufflesSelecting(pool, required, T) ==
    {o \in Orders(pool) : SeqToSet(SubSeq(o, 1, DrainEnd(required, Len(o)))) = T}

\* A trigger is about to be handled with fewer than low peers
UnderTargetTrigger ==
    /\ mailbox # <<>>
    /\ Head(mailbox) = CheckPeerCount
    /\ PeerCountTooLow(Cardinality(DOMAIN peers), threshold)

\* What the resolver can return to that trigger: nothing when it is not
\* invoked
Resolvable ==
    IF PoolTooSmall(potential_peers, threshold) /\ DOMAIN peers = {}
    THEN SUBSET SocketAddr
    ELSE {{}}

Max(a, b) == IF a > b THEN a ELSE b

\* The step handles the termination of a peer
TerminationStep ==
    /\ HandlerStep
    /\ Head(mailbox).type = "ActorTerminated"

\* The peers the trigger handled last sent a stop request to
Stopped == {out.stops[i].uri : i \in DOMAIN out.stops}

\* After a termination handled right after a trigger, the stop requests of
\* that trigger that are pending do not exceed what the registry has above
\* high
PendingWithinExcess ==
    (Cardinality(Stopped \cap DOMAIN peers')
        <= Max(0, Cardinality(DOMAIN peers') - threshold.high))

\* C25 as stated: whichever peer terminates after a trigger, the peers that
\* were sent a stop request and have not terminated are at most
\* |registry| - high.
C25_Original == [][(HandledCheck /\ TerminationStep) => PendingWithinExcess]_vars

\* C25: a trigger sends stop requests to exactly |registry| - high distinct
\* registered peers when the registry is above high, so that their
\* termination leaves exactly high; after the termination of one of them
\* the pending stop requests of the trigger are at most |registry| - high.
C25_NoOverShedPerTrigger ==
    /\ [](HandledCheck =>
            /\ Stopped \subseteq RegistryBefore
            /\ Cardinality(Stopped) = Len(out.stops)
            /\ Len(out.stops) = Max(0, Cardinality(RegistryBefore) - threshold.high)
            /\ (Len(out.stops) > 0 =>
                    Cardinality(RegistryBefore \ Stopped) = threshold.high))
    /\ [][(HandledCheck /\ TerminationStep /\ Head(mailbox).actor \in Stopped) =>
             PendingWithinExcess]_vars

\* The termination of a peer the trigger has just stopped is queued
C25_Witness ==
    /\ HandledCheck
    /\ Len(out.stops) >= 1
    /\ mailbox # <<>>
    /\ Head(mailbox) = ActorTerminated(out.stops[1].uri)

\* C26 as stated: the registry and the addresses with a connect request
\* issued and not yet resolved never add up to more than low; here over two
\* triggers handled back to back, no dial of the first having resolved.
C26_Original ==
    [][(DialsUnresolved /\ TriggerStep) =>
           Cardinality(DOMAIN peers')
               + Cardinality(SeqToSet(out.connects) \cup SeqToSet(out'.connects))
               <= Max(threshold.low, Cardinality(DOMAIN peers'))]_vars

\* C26: the connect requests of one trigger and the registry it finds never
\* add up to more than low, and a trigger that finds low or more peers
\* issues none.
C26_NoOverDialPerTrigger ==
    /\ [](HandledCheck =>
            /\ Cardinality(RegistryBefore) + Len(out.connects)
                  <= Max(threshold.low, Cardinality(RegistryBefore))
            /\ Distinct(out.connects))
    /\ [][TriggerStep =>
             Cardinality(DOMAIN peers) + Len(out'.connects)
                 <= Max(threshold.low, Cardinality(DOMAIN peers))]_vars

\* A trigger that finds one peer and dials the one that is missing
C26_Witness ==
    /\ HandledCheck
    /\ Cardinality(RegistryBefore) = 1
    /\ Len(out.connects) = 1
    /\ threshold.low = 2

\* Whenever the resolver is invoked it returns at least one address
AlwaysResolves == []~FailedDns

ShortOfPeers == Cardinality(DOMAIN peers) < threshold.low

\* C27 as stated: while the registry stays below low, ticks keep firing and
\* the bootstrap endpoints resolve, a connect request is eventually issued,
\* whatever the registry and the pool.
C27_Original == AlwaysResolves => (ShortOfPeers ~> RecoveryDialed)

\* C27: while the registry stays below low, ticks keep firing and the
\* bootstrap endpoints resolve, a connect request is eventually issued if
\* the registry is empty or the pool is not; with a registry that is not
\* empty and an empty pool the manager only asks its peers to re-advertise.
C27_EventuallyDials ==
    /\ AlwaysResolves =>
          ((ShortOfPeers /\ (DOMAIN peers = {} \/ potential_peers # {})) ~> RecoveryDialed)
    /\ [](HandledCheck /\ RegistryBefore # {} /\ out.potential_peers = {} /\ threshold.low > Cardinality(RegistryBefore) =>
            /\ out.connects = <<>>
            /\ out.dns = 0
            /\ Len(out.bootstraps) = Cardinality(RegistryBefore))

\* The resolver gives an empty manager with an empty pool a peer to dial
C27_Witness ==
    /\ HandledCheck
    /\ RegistryBefore = {}
    /\ out.potential_peers = {}
    /\ out.dns = 1
    /\ Len(out.connects) >= 1
    /\ Cardinality(DOMAIN peers) < threshold.low

\* C28: the subtractions of the admission trigger never underflow and the
\* drain range never exceeds the candidate list: low - |registry| is
\* evaluated only when |registry| < low, |registry| - high only when
\* |registry| > high, and at most the listed candidates are drained, for
\* every threshold with 0 <= low <= high.
C28_NoUnderflow ==
    /\ out.faults = {}
    /\ HandledCheck =>
          /\ out.connects # <<>> => Cardinality(RegistryBefore) < threshold.low
          /\ out.stops # <<>> => Cardinality(RegistryBefore) > threshold.high
          /\ Len(out.connects) <= Cardinality(out.potential_peers \cup out.resolved)
          /\ Len(out.connects) <= Max(threshold.low - Cardinality(RegistryBefore), 0)
          /\ Len(out.stops) = Max(Cardinality(RegistryBefore) - threshold.high, 0)

\* A trigger sheds peers under the threshold low = high = 0
C28_Witness ==
    /\ HandledCheck
    /\ threshold.low = 0
    /\ threshold.high = threshold.low
    /\ Len(out.stops) = Cardinality(RegistryBefore)
    /\ out.stops # <<>>
    /\ out.faults = {}

====
